---- MODULE Spec2Model ----
(***************************************************************************)
(* Model of the KaizenAI silence-cutting server (src/server.js).           *)
(*                                                                         *)
(* The source holds two programs: the queued server (lines 1-303) and the  *)
(* sequential "server (2).js" (lines 306-576).  The job map, the pending   *)
(* queue, runQueue, processFile, the expiry timers and the routes are      *)
(* modelled from the first; the segment planner with minKeep is modelled   *)
(* from the second.  One action is one turn of the Node event loop: a      *)
(* request handler, the continuation that runs when an external ffmpeg     *)
(* process closes, or an expiry timer callback.  Times are in tenths of a  *)
(* second.                                                                 *)
(***************************************************************************)
EXTENDS Integers, Sequences, FiniteSets, TLC

\* ---------------------------------------------------------------- bounds
MaxJobs == 3
MaxFiles == 2
DrainFiles == 1
OrderJobs == 4
MaxExpired == 1
MaxDur == 12
MaxSil == 2
MaxSegs == 3
GraphT == 2

\* ------------------------------------------------------------- constants
MAX_CONCURRENT_JOBS == 2
PostSpeechBuffer == 5
PreSpeechBuffer == 5
MinKeep == 2
KEEP_BEFORE == 3
KEEP_AFTER == 3
MIN_SILENCE == 6
FADE == 8   \* in hundredths of a second

NULL == "null"
EXPIRED_PAGE == "This job has expired."
EXPIRED_DOWNLOAD == "Expired"

\* Job ids: uid() never repeats, ids are numbered in creation order.
JobIds == 1..(IF MaxJobs > OrderJobs THEN MaxJobs ELSE OrderJobs)

VARIABLES
  created,     \* number of job records made so far; uid() yields created+1
  jobs,        \* key set of the jobs Map
  jobDir,      \* ids whose job directory exists on disk
  timers,      \* ids whose expiry timer is armed and has not fired
  route,       \* route[j]: the route of the request the job was made for
  status,      \* status[j]: job.status of job object j ("NONE": no object)
  hist,        \* hist[j]: the values assigned to job.status, in order
  files,       \* files[j]: job.files, a sequence of [status, outputName]
  queue,       \* the pending queue (job ids, head first)
  activeJobs,  \* the activeJobs counter
  run,         \* run[j]: where job j's runQueue call is suspended
  uploading,   \* ids of upload requests whose body multer is still receiving
  stored,      \* stored[j]: the files multer has stored so far for upload j
  rm,          \* rm[j]: the fs.rm of job j's directory: "none" (not started),
               \* "running", "raced" (running, and a file was created in a
               \* subdirectory that held one), "ended"
  res,         \* the last response sent: [for: requested id, page]
  pSilences,   \* planner input: the silence list
  pTotal,      \* planner input: totalDuration
  pKeep,       \* planner output (empty before the call)
  pCall,       \* which planner has been called: "none", "minKeep", "legacy"
  gSegs,       \* graph builder input: the segments
  gGraph       \* graph builder output: the filters joined by ";" (empty
               \* before the call)

jobVars == <<created, jobs, jobDir, timers, route, status, hist, files,
             queue, activeJobs, run, uploading, stored, rm, res>>
planVars == <<pSilences, pTotal, pKeep, pCall, gSegs, gGraph>>
vars == <<created, jobs, jobDir, timers, route, status, hist, files,
          queue, activeJobs, run, uploading, stored, rm, res, pSilences, pTotal,
          pKeep, pCall, gSegs, gGraph>>

\* ------------------------------------------------------ segment planner
\* A silence is [start, end]; end = NullEnd stands for JavaScript null.
NullEnd == -1

\* The duration when the probe yields no number: parseFloat("") = NaN in
\* processSingleFile, and the undefined that getDuration of the queued server
\* returns when ffmpeg exits 0.  Arithmetic on it yields NaN and every
\* comparison with it is false.
NaN == -1000

\* a - b
Minus(a, b) == IF a = NaN \/ b = NaN THEN NaN ELSE a - b

\* a >= b
AtLeast(a, b) == a # NaN /\ b # NaN /\ a >= b

\* a < b
Less(a, b) == a # NaN /\ b # NaN /\ a < b

\* Math.max(a, b)
Max(a, b) == IF a = NaN \/ b = NaN THEN NaN ELSE IF a >= b THEN a ELSE b

\* s.end ?? totalDuration
EndOrTotal(s, totalDuration) == IF s.end = NullEnd THEN totalDuration ELSE s.end

\* One pass of the for-loop of buildKeepSegments (minKeep variant), from
\* silence i on, followed by the trailing-segment test.
RECURSIVE KeepLoop(_, _, _, _, _, _, _, _)
KeepLoop(silences, totalDuration, post, pre, minKeep, i, cursor, keep) ==
  IF i > Len(silences)
  THEN IF AtLeast(Minus(totalDuration, cursor), minKeep)
       THEN Append(keep, [start |-> cursor, end |-> totalDuration])
       ELSE keep
  ELSE LET s == silences[i]
           end == EndOrTotal(s, totalDuration)
           cutStart == s.start + post
           cutEnd == Minus(end, pre)
           keep1 == IF AtLeast(Minus(cutStart, cursor), minKeep)
                    THEN Append(keep, [start |-> cursor, end |-> cutStart])
                    ELSE keep
       IN KeepLoop(silences, totalDuration, post, pre, minKeep, i + 1,
                   Max(cursor, cutEnd), keep1)

buildKeepSegments(silences, totalDuration, post, pre, minKeep) ==
  KeepLoop(silences, totalDuration, post, pre, minKeep, 1, 0, <<>>)

\* null - KEEP_AFTER: JavaScript converts null to 0 in arithmetic.
NumOf(e) == IF e = NullEnd THEN 0 ELSE e

\* buildKeepSegments of the queued server (KEEP_BEFORE / KEEP_AFTER).
RECURSIVE LegacyLoop(_, _, _, _, _)
LegacyLoop(silences, duration, i, cursor, keeps) ==
  IF i > Len(silences)
  THEN IF Less(cursor, duration)
       THEN Append(keeps, [start |-> cursor, end |-> duration])
       ELSE keeps
  ELSE LET s == silences[i]
           keepEnd == s.start + KEEP_BEFORE
           nextStart == NumOf(s.end) - KEEP_AFTER
       IN IF keepEnd > cursor
          THEN LegacyLoop(silences, duration, i + 1, nextStart,
                          Append(keeps, [start |-> cursor, end |-> keepEnd]))
          ELSE LegacyLoop(silences, duration, i + 1, cursor, keeps)

buildKeepSegmentsLegacy(silences, duration) ==
  LegacyLoop(silences, duration, 1, 0, <<>>)

\* Silence lists in start order, not overlapping, inside [0, T]; only the
\* last silence may be open-ended (end null).
RECURSIVE SilenceSeqs(_, _, _)
SilenceSeqs(n, lo, T) ==
  IF n = 0 THEN {<<>>}
  ELSE {<<>>}
       \cup {<<[start |-> a, end |-> NullEnd]>> : a \in lo..T}
       \cup UNION {UNION {{<<[start |-> a, end |-> b]>> \o r :
                             r \in SilenceSeqs(n - 1, b, T)} : b \in a..T} :
                   a \in lo..T}

\* -------------------------------------------------------- filter graph
\* One element of the array f.  A trim filter reads stream src ("0:v" or
\* "0:a"), cuts [start, end], resets the timestamps, fades in and out when
\* the flags are set (fadeOutSt in hundredths), and writes the pin out.  The
\* concat filter reads the pins in inputs and has the parameter n.
TrimFilter(src, name, start, end, fadeIn, fadeOut, fadeOutSt, out) ==
  [src |-> src, name |-> name, start |-> start, end |-> end,
   fadeIn |-> fadeIn, fadeOut |-> fadeOut, fadeOutSt |-> fadeOutSt,
   out |-> out, inputs |-> <<>>, n |-> 0]

ConcatFilter(inputs, n) ==
  [src |-> "", name |-> "concat", start |-> 0, end |-> 0,
   fadeIn |-> FALSE, fadeOut |-> FALSE, fadeOutSt |-> 0,
   out |-> <<"outv", "outa">>, inputs |-> inputs, n |-> n]

\* Variant of HasFadeIn that fades the first segment in as well.
HasFadeInAlways(i) == i >= 0

\* i > 0 ? fade in : ""   (i is the zero-based index of forEach)
HasFadeIn(i) == i > 0

\* i < segs.length - 1 ? fade out : ""
HasFadeOut(i, n) == i < n - 1

\* const fadeOut = Math.max(0, dur - FADE), segment times being in tenths
FadeOutStart(s) == Max(0, 10 * (s.end - s.start) - FADE)

VideoFilter(segs, i) ==
  TrimFilter("0:v", "trim", segs[i + 1].start, segs[i + 1].end,
             HasFadeIn(i), HasFadeOut(i, Len(segs)),
             IF HasFadeOut(i, Len(segs)) THEN FadeOutStart(segs[i + 1]) ELSE 0,
             <<"v", i>>)

AudioFilter(segs, i) ==
  TrimFilter("0:a", "atrim", segs[i + 1].start, segs[i + 1].end,
             HasFadeIn(i), HasFadeOut(i, Len(segs)),
             IF HasFadeOut(i, Len(segs)) THEN FadeOutStart(segs[i + 1]) ELSE 0,
             <<"a", i>>)

\* The forEach of buildFilterGraph from index i on: f and c grow by the
\* video filter, the audio filter and the pin pair of each segment; then
\* the concat filter is pushed onto f.
RECURSIVE GraphLoop(_, _, _, _)
GraphLoop(segs, i, f, c) ==
  IF i >= Len(segs)
  THEN Append(f, ConcatFilter(c, Len(segs)))
  ELSE GraphLoop(segs, i + 1,
                 f \o <<VideoFilter(segs, i), AudioFilter(segs, i)>>,
                 c \o <<<<"v", i>>, <<"a", i>>>>)

buildFilterGraph(segs) == GraphLoop(segs, 0, <<>>, <<>>)

\* Segment lists of at most n segments with bounds in 0..T.
RECURSIVE SegSeqs(_, _)
SegSeqs(n, T) ==
  IF n = 0 THEN {<<>>}
  ELSE LET shorter == SegSeqs(n - 1, T)
       IN shorter \cup
          {Append(q, [start |-> a, end |-> b]) :
             q \in {r \in shorter : Len(r) = n - 1},
             a \in 0..T, b \in 0..T}

\* ------------------------------------------------------- job scheduler
\* The part of the state that runQueue and processFile read and write.
S == [status |-> status, hist |-> hist, files |-> files, queue |-> queue,
      activeJobs |-> activeJobs, run |-> run]

Commit(s) ==
  /\ status' = s.status
  /\ hist' = s.hist
  /\ files' = s.files
  /\ queue' = s.queue
  /\ activeJobs' = s.activeJobs
  /\ run' = s.run

Idle == [idx |-> 0, stage |-> "idle", dur |-> "unset"]

\* job.status = st
SetJobStatus(s, j, st) ==
  [s EXCEPT !.status[j] = st, !.hist[j] = Append(@, st)]

\* Variant of Full with the comparison off by one.
FullOffByOne(n) == n > MAX_CONCURRENT_JOBS

\* if (activeJobs >= MAX_CONCURRENT_JOBS) return;
Full(n) == n >= MAX_CONCURRENT_JOBS

\* Variant of StartFile that starts every remaining file at once.
StartFileAll(s, j, i) ==
  [s EXCEPT !.files[j] = [k \in 1..Len(@) |->
                            IF k >= i THEN [@[k] EXCEPT !.status = "PROCESSING"]
                            ELSE @[k]],
            !.run[j] = [idx |-> i, stage |-> "probe", dur |-> "unset"]]

\* f.status = "PROCESSING"; await processFile(job, f): processFile runs up
\* to the spawn of the duration probe and suspends there.
StartFile(s, j, i) ==
  [s EXCEPT !.files[j][i].status = "PROCESSING",
            !.run[j] = [idx |-> i, stage |-> "probe", dur |-> "unset"]]

RECURSIVE runQueue(_)

\* Variant of Finally that frees the slot without admitting the next job.
FinallyNoAdmit(s) == [s EXCEPT !.activeJobs = @ - 1]

\* finally { activeJobs--; runQueue(); }
Finally(s) == runQueue([s EXCEPT !.activeJobs = @ - 1])

\* Variant of runQueue that takes the job pushed last.
runQueueLifo(s) ==
  IF Full(s.activeJobs) THEN s
  ELSE IF s.queue = <<>> THEN s
  ELSE LET job == s.queue[Len(s.queue)]
           s1 == SetJobStatus([s EXCEPT
                                 !.queue = SubSeq(@, 1, Len(@) - 1),
                                 !.activeJobs = @ + 1],
                              job, "PROCESSING")
       IN IF Len(s1.files[job]) = 0
          THEN Finally(SetJobStatus(s1, job, "DONE"))
          ELSE StartFile(s1, job, 1)

\* runQueue up to its first suspension.  A job without files never awaits:
\* it is marked PROCESSING, then DONE, and the finally block runs at once.
runQueue(s) ==
  IF Full(s.activeJobs) THEN s
  ELSE IF s.queue = <<>> THEN s
  ELSE LET job == Head(s.queue)
           s1 == SetJobStatus([s EXCEPT !.queue = Tail(@),
                                        !.activeJobs = @ + 1],
                              job, "PROCESSING")
       IN IF Len(s1.files[job]) = 0
          THEN Finally(SetJobStatus(s1, job, "DONE"))
          ELSE StartFile(s1, job, 1)

\* Variant of Catch that puts the failed job back on the queue.
CatchRequeue(s, j) ==
  Finally(SetJobStatus([s EXCEPT !.run[j] = Idle, !.queue = Append(@, j)],
                       j, "QUEUED"))

\* Variant of Catch that skips the failed file and goes on with the next.
CatchSkipFile(s, j) ==
  IF s.run[j].idx < Len(s.files[j])
  THEN StartFile(s, j, s.run[j].idx + 1)
  ELSE Finally(SetJobStatus([s EXCEPT !.run[j] = Idle], j, "ERROR"))

\* catch (e) { job.status = "ERROR"; } finally { ... }
Catch(s, j) ==
  Finally(SetJobStatus([s EXCEPT !.run[j] = Idle], j, "ERROR"))

\* file.outputName = outputName (last statement of processFile)
SetOutput(s, j) ==
  [s EXCEPT !.files[j][s.run[j].idx].outputName = "out"]

\* Variant of FileDone that marks the job DONE after its first file.
FileDoneEarly(s, j) ==
  LET i == s.run[j].idx
      s1 == [s EXCEPT !.files[j][i].status = "DONE"]
  IN Finally(SetJobStatus([s1 EXCEPT !.run[j] = Idle], j, "DONE"))

\* processFile returned: f.status = "DONE", then the next file of the loop,
\* or job.status = "DONE" and the finally block.
FileDone(s, j) ==
  LET i == s.run[j].idx
      s1 == [s EXCEPT !.files[j][i].status = "DONE"]
  IN IF i < Len(s.files[j])
     THEN StartFile(s1, j, i + 1)
     ELSE Finally(SetJobStatus([s1 EXCEPT !.run[j] = Idle], j, "DONE"))

\* The duration probe (ffmpeg -i file) closed.  o = "duration": exit code
\* non-zero and the log holds a Duration marker; "noDuration": non-zero and
\* no marker; "exit0": exit code zero, getDuration returns undefined.
AfterProbe(s, j, o) ==
  IF o = "noDuration" THEN Catch(s, j)
  ELSE [s EXCEPT !.run[j].stage = "detect",
                 !.run[j].dur = IF o = "duration" THEN "number"
                                ELSE "undefined"]

\* The silencedetect run closed.  "reject": non-zero exit; "noneCopied" and
\* "noneCopyFailed": no silence found, copyFileSync succeeded or threw;
\* "some": silences found, the encode is spawned.
AfterDetect(s, j, o) ==
  CASE o = "reject" -> Catch(s, j)
    [] o = "noneCopied" -> FileDone(SetOutput(s, j), j)
    [] o = "noneCopyFailed" -> Catch(s, j)
    [] OTHER -> [s EXCEPT !.run[j].stage = "encode"]

\* The encode closed with exit code zero ("ok") or not ("fail").
AfterEncode(s, j, o) ==
  IF o = "ok" THEN FileDone(SetOutput(s, j), j) ELSE Catch(s, j)

\* ---------------------------------------------------------- responses
Response(kind, heading, reload, fileItems, footer) ==
  [kind |-> kind, heading |-> heading, reload |-> reload,
   files |-> fileItems, footer |-> footer]

NoResponse == Response("none", "", FALSE, <<>>, "")
ExpiredResponse == Response(EXPIRED_PAGE, "", FALSE, <<>>, "")
ExpiredDownload == Response(EXPIRED_DOWNLOAD, "", FALSE, <<>>, "")
DownloadResponse == Response("download", "", FALSE, <<>>, "")
RedirectResponse == Response("redirect", "", FALSE, <<>>, "")
ErrorResponse == Response("error", "", FALSE, <<>>, "")
NotFoundResponse == Response("notFound", "", FALSE, <<>>, "")

\* The page of GET /status/:jobId for a job object with the given status
\* and files: heading, reload script, one item per file (its status and
\* whether a download link is shown), footer.
RenderStatus(jobStatus, jobFiles) ==
  LET done == jobStatus = "DONE"
  IN Response("status",
              IF done THEN "Processing complete" ELSE "Processing...",
              ~done,
              [i \in 1..Len(jobFiles) |->
                 [status |-> jobFiles[i].status,
                  link |-> jobFiles[i].outputName # NULL]],
              IF done THEN "Upload more files" ELSE "Please wait...")

\* const job = jobs.get(id); if (!job) return res.send("This job has expired.")
StatusResponse(id) ==
  IF id \notin jobs THEN ExpiredResponse
  ELSE RenderStatus(status[id], files[id])

DownloadResult(id) ==
  IF id \notin jobs THEN ExpiredDownload ELSE DownloadResponse

\* ------------------------------------------------------------- actions
Init ==
  /\ created = 0
  /\ jobs = {}
  /\ jobDir = {}
  /\ timers = {}
  /\ route = [j \in JobIds |-> "none"]
  /\ status = [j \in JobIds |-> "NONE"]
  /\ hist = [j \in JobIds |-> <<>>]
  /\ files = [j \in JobIds |-> <<>>]
  /\ queue = <<>>
  /\ activeJobs = 0
  /\ run = [j \in JobIds |-> Idle]
  /\ uploading = {}
  /\ stored = [j \in JobIds |-> 0]
  /\ rm = [j \in JobIds |-> "none"]
  /\ res = [for |-> 0, page |-> NoResponse]
  /\ pSilences = <<>>
  /\ pTotal = 0
  /\ pKeep = <<>>
  /\ pCall = "none"
  /\ gSegs = <<>>
  /\ gGraph = <<>>

\* The job creation middleware, which app.use runs for every request that
\* express.static did not answer: a fresh id, the two directories, a job
\* object in the map, and the expiry timer.
Middleware(r) ==
  /\ created < MaxJobs
  /\ created' = created + 1
  /\ jobs' = jobs \cup {created + 1}
  /\ jobDir' = jobDir \cup {created + 1}
  /\ timers' = timers \cup {created + 1}
  /\ route' = [route EXCEPT ![created + 1] = r]
  /\ UNCHANGED <<stored, rm>>

\* The job object the middleware builds.
NewJob(s, j) ==
  [s EXCEPT !.status[j] = "QUEUED", !.hist[j] = <<"QUEUED">>,
            !.files[j] = <<>>]

\* POST /upload arrives: the middleware runs, then multer starts to
\* receive the body.
UploadBegin ==
  /\ Middleware("upload")
  /\ Commit(NewJob(S, created + 1))
  /\ uploading' = uploading \cup {created + 1}
  /\ UNCHANGED <<res, planVars>>

QueuedFile == [status |-> "QUEUED", outputName |-> NULL]

\* Variant of Submit that pushes the job without calling runQueue.
SubmitNoRun(s, j) == [s EXCEPT !.queue = Append(@, j)]

\* queue.push(job); runQueue();
Submit(s, j) == runQueue([s EXCEPT !.queue = Append(@, j)])

\* The removal of job j's directory is in flight.
Removing(j) == rm[j] \in {"running", "raced"}

\* A file is created in a subdirectory of job j that already holds one
\* (given by inDir): if the removal is in flight, the file can fall between
\* its readdir and its rmdir of that subdirectory.
Created(j, inDir) ==
  [rm EXCEPT ![j] = IF @ = "running" /\ inDir THEN "raced" ELSE @]

\* multer stores one more file of upload j (destination, filename,
\* createWriteStream): the upload directory, which multer does not create,
\* must exist when the file is opened.  At most cap files per upload.
StoreFile(j, cap) ==
  /\ j \in uploading
  /\ j \in jobDir
  /\ stored[j] < cap
  /\ stored' = [stored EXCEPT ![j] = @ + 1]
  /\ rm' = Created(j, stored[j] >= 1)
  /\ UNCHANGED <<created, jobs, jobDir, timers, route, status, hist, files,
                 queue, activeJobs, run, uploading, res, planVars>>

\* The /upload handler, after the body ended: req.files holds the files
\* multer stored, whether or not the directory still exists.
UploadHandler(j) ==
  /\ j \in uploading
  /\ uploading' = uploading \ {j}
  /\ stored' = [stored EXCEPT ![j] = 0]
  /\ Commit(Submit([S EXCEPT !.files[j] =
                               [i \in 1..stored[j] |-> QueuedFile]], j))
  /\ res' = [for |-> j, page |-> RedirectResponse]
  /\ UNCHANGED <<created, jobs, jobDir, timers, route, rm, planVars>>

\* multer rejected the upload (too many files, file too large) or the body
\* was not multipart: the handler does not enqueue the job.
UploadError(j) ==
  /\ j \in uploading
  /\ uploading' = uploading \ {j}
  /\ stored' = [stored EXCEPT ![j] = 0]
  /\ res' = [for |-> j, page |-> ErrorResponse]
  /\ UNCHANGED <<created, jobs, jobDir, timers, route, status, hist, files,
                 queue, activeJobs, run, rm, planVars>>

\* GET /status/:jobId for a known id or an unknown one (0).
StatusRequest(id) ==
  /\ Middleware("status")
  /\ Commit(NewJob(S, created + 1))
  /\ res' = [for |-> id, page |-> StatusResponse(id)]
  /\ UNCHANGED <<uploading, planVars>>

\* GET /download/:jobId/:file
DownloadRequest(id) ==
  /\ Middleware("download")
  /\ Commit(NewJob(S, created + 1))
  /\ res' = [for |-> id, page |-> DownloadResult(id)]
  /\ UNCHANGED <<uploading, planVars>>

\* A request that no route matches (GET /favicon.ico, POST /status/x): the
\* middleware runs all the same, then express answers 404.
OtherRequest ==
  /\ Middleware("other")
  /\ Commit(NewJob(S, created + 1))
  /\ res' = [for |-> 0, page |-> NotFoundResponse]
  /\ UNCHANGED <<uploading, planVars>>

\* Variant of Expire that also abandons the run of the expired job.
ExpireCancelsRun(j) ==
  /\ j \in timers
  /\ timers' = timers \ {j}
  /\ jobs' = jobs \ {j}
  /\ run' = [run EXCEPT ![j] = Idle]
  /\ rm' = [rm EXCEPT ![j] = "running"]
  /\ UNCHANGED <<created, jobDir, route, status, hist, files, queue,
                 activeJobs, uploading, stored, res, planVars>>

\* The encode of a second or later file of job j is running: ffmpeg creates
\* its output in outputs/, which holds the earlier outputs.
EncodingLater(j) == run[j].stage = "encode" /\ run[j].idx >= 2

\* The expiry timer of job j fires: fs.rm(jobDir, ..., cb) is started and
\* jobs.delete(jobId) runs.  fs.rm is asynchronous: the directory is still
\* there when the callback returns.
Expire(j) ==
  /\ j \in timers
  /\ timers' = timers \ {j}
  /\ jobs' = jobs \ {j}
  /\ rm' = [rm EXCEPT ![j] = IF EncodingLater(j) THEN "raced" ELSE "running"]
  /\ UNCHANGED <<created, jobDir, route, status, hist, files, queue,
                 activeJobs, run, uploading, stored, res, planVars>>

RmOutcomes == {"removed", "notEmpty"}

\* The fs.rm started by the timer callback calls back.  "removed": the
\* directory is gone.  "notEmpty": a file was created between the readdir
\* and the rmdir of a subdirectory, rmdir failed with ENOTEMPTY, and the
\* callback () => {} ignores the error: the directory stays.
RmDone(j, o) ==
  /\ Removing(j)
  /\ o = "notEmpty" => rm[j] = "raced"
  /\ rm' = [rm EXCEPT ![j] = "ended"]
  /\ jobDir' = IF o = "removed" THEN jobDir \ {j} ELSE jobDir
  /\ UNCHANGED <<created, jobs, timers, route, status, hist, files, queue,
                 activeJobs, run, uploading, stored, res, planVars>>

ProbeOutcomes == {"duration", "noDuration", "exit0"}
DetectOutcomes == {"reject", "noneCopied", "noneCopyFailed", "some"}
EncodeOutcomes == {"ok", "fail"}

ProbeDone(j, o) ==
  /\ run[j].stage = "probe"
  /\ Commit(AfterProbe(S, j, o))
  /\ UNCHANGED <<created, jobs, jobDir, timers, route, uploading, stored, rm,
                 res, planVars>>

\* copyFileSync cannot succeed once the job directory has been removed.
\* The copy, and the encode spawned otherwise, create the output file.
DetectDone(j, o) ==
  /\ run[j].stage = "detect"
  /\ o = "noneCopied" => j \in jobDir
  /\ Commit(AfterDetect(S, j, o))
  /\ rm' = IF o \in {"noneCopied", "some"}
           THEN Created(j, run[j].idx >= 2) ELSE rm
  /\ UNCHANGED <<created, jobs, jobDir, timers, route, uploading, stored, res,
                 planVars>>

EncodeDone(j, o) ==
  /\ run[j].stage = "encode"
  /\ Commit(AfterEncode(S, j, o))
  /\ UNCHANGED <<created, jobs, jobDir, timers, route, uploading, stored, rm,
                 res, planVars>>

ToolDone(j) ==
  \/ \E o \in ProbeOutcomes : ProbeDone(j, o)
  \/ \E o \in DetectOutcomes : DetectDone(j, o)
  \/ \E o \in EncodeOutcomes : EncodeDone(j, o)

\* The jobs whose expiry timer has fired.
Expired == {j \in 1..created : j \notin timers}

\* At most MaxExpired timers fire.
Next ==
  \/ UploadBegin
  \/ \E j \in JobIds : StoreFile(j, MaxFiles)
  \/ \E j \in JobIds : UploadHandler(j)
  \/ \E j \in JobIds : UploadError(j)
  \/ \E id \in 0..MaxJobs : id <= created /\ StatusRequest(id)
  \/ \E id \in 0..MaxJobs : id <= created /\ DownloadRequest(id)
  \/ OtherRequest
  \/ \E j \in JobIds : Cardinality(Expired) < MaxExpired /\ Expire(j)
  \/ \E j \in JobIds, o \in RmOutcomes : RmDone(j, o)
  \/ \E j \in JobIds, o \in ProbeOutcomes : ProbeDone(j, o)
  \/ \E j \in JobIds, o \in DetectOutcomes : DetectDone(j, o)
  \/ \E j \in JobIds, o \in EncodeOutcomes : EncodeDone(j, o)

Spec == Init /\ [][Next]_vars

\* The draining specification: the same steps with uploads of at most
\* DrainFiles files and at most MaxExpired timers firing.
DrainNext ==
  \/ UploadBegin
  \/ \E j \in JobIds : StoreFile(j, DrainFiles)
  \/ \E j \in JobIds : UploadHandler(j)
  \/ \E j \in JobIds : UploadError(j)
  \/ \E id \in 0..MaxJobs : id <= created /\ StatusRequest(id)
  \/ \E id \in 0..MaxJobs : id <= created /\ DownloadRequest(id)
  \/ OtherRequest
  \/ \E j \in JobIds : Cardinality(Expired) < MaxExpired /\ Expire(j)
  \/ \E j \in JobIds, o \in RmOutcomes : RmDone(j, o)
  \/ \E j \in JobIds : ToolDone(j)

\* Every spawned process closes and every fs.rm calls back.
FairSpec ==
  /\ Init /\ [][DrainNext]_vars
  /\ \A j \in JobIds : WF_vars(ToolDone(j))
  /\ \A j \in JobIds : WF_vars(\E o \in RmOutcomes : RmDone(j, o))

\* --------------------------------------------- planner specification
InitPlan ==
  /\ created = 0
  /\ jobs = {}
  /\ jobDir = {}
  /\ timers = {}
  /\ route = [j \in JobIds |-> "none"]
  /\ status = [j \in JobIds |-> "NONE"]
  /\ hist = [j \in JobIds |-> <<>>]
  /\ files = [j \in JobIds |-> <<>>]
  /\ queue = <<>>
  /\ activeJobs = 0
  /\ run = [j \in JobIds |-> Idle]
  /\ uploading = {}
  /\ stored = [j \in JobIds |-> 0]
  /\ rm = [j \in JobIds |-> "none"]
  /\ res = [for |-> 0, page |-> NoResponse]
  /\ pTotal \in 0..MaxDur \cup {NaN}
  /\ pSilences \in SilenceSeqs(MaxSil, 0, IF pTotal = NaN THEN MaxDur ELSE pTotal)
  /\ pKeep = <<>>
  /\ pCall = "none"
  /\ gSegs = <<>>
  /\ gGraph = <<>>

\* processSingleFile past its fast path (silences.length === 0 re-encodes
\* without planning): buildKeepSegments({silences, totalDuration}) with the
\* default buffers; totalDuration is parseFloat of the ffprobe output.
PlanMinKeep ==
  /\ pCall = "none"
  /\ pSilences # <<>>
  /\ pKeep' = buildKeepSegments(pSilences, pTotal, PostSpeechBuffer,
                                PreSpeechBuffer, MinKeep)
  /\ pCall' = "minKeep"
  /\ UNCHANGED <<jobVars, pSilences, pTotal, gSegs, gGraph>>

\* A silence list detectSilences can return: every silence is closed and
\* lasts at least MIN_SILENCE.
Detected(silences) ==
  \A i \in 1..Len(silences) :
    /\ silences[i].end # NullEnd
    /\ silences[i].end - silences[i].start >= MIN_SILENCE

\* processFile past its fast path (silences.length === 0 copies the file):
\* buildKeepSegments(silences, duration) of the queued server; duration is
\* a number or, when the probe exited 0, undefined.
PlanLegacy ==
  /\ pCall = "none"
  /\ pSilences # <<>>
  /\ Detected(pSilences)
  /\ pKeep' = buildKeepSegmentsLegacy(pSilences, pTotal)
  /\ pCall' = "legacy"
  /\ UNCHANGED <<jobVars, pSilences, pTotal, gSegs, gGraph>>

NextPlan == PlanMinKeep \/ PlanLegacy

SpecPlan == InitPlan /\ [][NextPlan]_vars

\* ----------------------------------- planner function specification
\* The two planner functions applied to any silence list in start order and
\* any total duration, the empty list included (the call sites above never
\* pass it).
InitFn ==
  /\ created = 0
  /\ jobs = {}
  /\ jobDir = {}
  /\ timers = {}
  /\ route = [j \in JobIds |-> "none"]
  /\ status = [j \in JobIds |-> "NONE"]
  /\ hist = [j \in JobIds |-> <<>>]
  /\ files = [j \in JobIds |-> <<>>]
  /\ queue = <<>>
  /\ activeJobs = 0
  /\ run = [j \in JobIds |-> Idle]
  /\ uploading = {}
  /\ stored = [j \in JobIds |-> 0]
  /\ rm = [j \in JobIds |-> "none"]
  /\ res = [for |-> 0, page |-> NoResponse]
  /\ pTotal \in 0..MaxDur
  /\ pSilences \in SilenceSeqs(MaxSil, 0, pTotal)
  /\ pKeep = <<>>
  /\ pCall = "none"
  /\ gSegs = <<>>
  /\ gGraph = <<>>

\* function buildKeepSegments({silences, totalDuration, ...}) { ... }
ApplyMinKeep ==
  /\ pCall = "none"
  /\ pKeep' = buildKeepSegments(pSilences, pTotal, PostSpeechBuffer,
                                PreSpeechBuffer, MinKeep)
  /\ pCall' = "minKeep"
  /\ UNCHANGED <<jobVars, pSilences, pTotal, gSegs, gGraph>>

\* function buildKeepSegments(silences, duration) { ... }
ApplyLegacy ==
  /\ pCall = "none"
  /\ pKeep' = buildKeepSegmentsLegacy(pSilences, pTotal)
  /\ pCall' = "legacy"
  /\ UNCHANGED <<jobVars, pSilences, pTotal, gSegs, gGraph>>

NextFn == ApplyMinKeep \/ ApplyLegacy

SpecFn == InitFn /\ [][NextFn]_vars

\* ------------------------------------------- admission order specification
\* OrderJobs uploads have arrived and their bodies are being received; the
\* handlers, the tool completions and the timers then run in any order.
\* Uploads hold at most DrainFiles files and at most MaxExpired timers fire.
InOrder(j) == j \in 1..OrderJobs

InitOrder ==
  /\ created = OrderJobs
  /\ jobs = 1..OrderJobs
  /\ jobDir = 1..OrderJobs
  /\ timers = 1..OrderJobs
  /\ route = [j \in JobIds |-> IF InOrder(j) THEN "upload" ELSE "none"]
  /\ status = [j \in JobIds |-> IF InOrder(j) THEN "QUEUED" ELSE "NONE"]
  /\ hist = [j \in JobIds |-> IF InOrder(j) THEN <<"QUEUED">> ELSE <<>>]
  /\ files = [j \in JobIds |-> <<>>]
  /\ queue = <<>>
  /\ activeJobs = 0
  /\ run = [j \in JobIds |-> Idle]
  /\ uploading = 1..OrderJobs
  /\ stored = [j \in JobIds |-> 0]
  /\ rm = [j \in JobIds |-> "none"]
  /\ res = [for |-> 0, page |-> NoResponse]
  /\ pSilences = <<>>
  /\ pTotal = 0
  /\ pKeep = <<>>
  /\ pCall = "none"
  /\ gSegs = <<>>
  /\ gGraph = <<>>

OrderNext ==
  \/ \E j \in JobIds : StoreFile(j, DrainFiles)
  \/ \E j \in JobIds : UploadHandler(j)
  \/ \E j \in JobIds : UploadError(j)
  \/ \E j \in JobIds : Cardinality(Expired) < MaxExpired /\ Expire(j)
  \/ \E j \in JobIds, o \in RmOutcomes : RmDone(j, o)
  \/ \E j \in JobIds : ToolDone(j)

OrderSpec == InitOrder /\ [][OrderNext]_vars

\* ------------------------------------------- runQueue call specification
\* The states in which runQueue can be called: any number of running jobs
\* up to the limit, any jobs waiting in any order, any jobs finished.
DoneFile == [status |-> "DONE", outputName |-> "out"]

Orders(Q) ==
  {q \in [1..Cardinality(Q) -> Q] : \A a, b \in DOMAIN q : a # b => q[a] # q[b]}

InitCall ==
  \E kind \in [JobIds -> {"queued", "running", "done"}],
     n \in [JobIds -> 0..MaxFiles] :
    /\ \A j \in JobIds : kind[j] # "queued" => n[j] > 0
    /\ Cardinality({j \in JobIds : kind[j] = "running"}) <= MAX_CONCURRENT_JOBS
    /\ created = Cardinality(JobIds)
    /\ jobs = JobIds
    /\ jobDir = JobIds
    /\ timers = JobIds
    /\ route = [j \in JobIds |-> "upload"]
    /\ status = [j \in JobIds |->
                   CASE kind[j] = "queued" -> "QUEUED"
                     [] kind[j] = "running" -> "PROCESSING"
                     [] OTHER -> "DONE"]
    /\ hist = [j \in JobIds |->
                 CASE kind[j] = "queued" -> <<"QUEUED">>
                   [] kind[j] = "running" -> <<"QUEUED", "PROCESSING">>
                   [] OTHER -> <<"QUEUED", "PROCESSING", "DONE">>]
    /\ files = [j \in JobIds |->
                  [i \in 1..n[j] |->
                     CASE kind[j] = "queued" -> QueuedFile
                       [] kind[j] = "running" ->
                            IF i = 1
                            THEN [QueuedFile EXCEPT !.status = "PROCESSING"]
                            ELSE QueuedFile
                       [] OTHER -> DoneFile]]
    /\ queue \in Orders({j \in JobIds : kind[j] = "queued"})
    /\ activeJobs = Cardinality({j \in JobIds : kind[j] = "running"})
    /\ run = [j \in JobIds |->
                IF kind[j] = "running"
                THEN [idx |-> 1, stage |-> "probe", dur |-> "unset"]
                ELSE Idle]
    /\ uploading = {}
    /\ stored = [j \in JobIds |-> 0]
    /\ rm = [j \in JobIds |-> "none"]
  /\ stored = [j \in JobIds |-> 0]
  /\ rm = [j \in JobIds |-> "none"]
    /\ res = [for |-> 0, page |-> NoResponse]
    /\ pSilences = <<>>
    /\ pTotal = 0
    /\ pKeep = <<>>
    /\ pCall = "none"
    /\ gSegs = <<>>
    /\ gGraph = <<>>

\* runQueue();
RunQueueCall ==
  /\ Commit(runQueue(S))
  /\ UNCHANGED <<created, jobs, jobDir, timers, route, uploading, stored, rm,
                 res, planVars>>

NextCall == RunQueueCall

SpecCall == InitCall /\ [][NextCall]_vars

\* ------------------------------------------ graph builder specification
InitGraph ==
  /\ created = 0
  /\ jobs = {}
  /\ jobDir = {}
  /\ timers = {}
  /\ route = [j \in JobIds |-> "none"]
  /\ status = [j \in JobIds |-> "NONE"]
  /\ hist = [j \in JobIds |-> <<>>]
  /\ files = [j \in JobIds |-> <<>>]
  /\ queue = <<>>
  /\ activeJobs = 0
  /\ run = [j \in JobIds |-> Idle]
  /\ uploading = {}
  /\ stored = [j \in JobIds |-> 0]
  /\ rm = [j \in JobIds |-> "none"]
  /\ res = [for |-> 0, page |-> NoResponse]
  /\ pSilences = <<>>
  /\ pTotal = 0
  /\ pKeep = <<>>
  /\ pCall = "none"
  /\ gSegs \in SegSeqs(MaxSegs, GraphT)
  /\ gGraph = <<>>

\* const graph = buildFilterGraph(keeps)
BuildGraph ==
  /\ gGraph = <<>>
  /\ gGraph' = buildFilterGraph(gSegs)
  /\ UNCHANGED <<jobVars, pSilences, pTotal, pKeep, pCall, gSegs>>

NextGraph == BuildGraph

SpecGraph == InitGraph /\ [][NextGraph]_vars

\* ================================================================ claims
Range(f) == {f[i] : i \in DOMAIN f}
Processing == {j \in JobIds : status[j] = "PROCESSING"}
Admitted(j) == "PROCESSING" \in Range(hist[j])
Ended(j) == status[j] \in {"DONE", "ERROR"}
Fired(j) == j \in 1..created /\ j \notin timers

\* C1: at most MAX_CONCURRENT_JOBS jobs have status PROCESSING in any
\* reachable state, so of three submitted jobs the third is PROCESSING only
\* once one of the first two has ended.
C1_ConcurrencyLimit == Cardinality(Processing) <= MAX_CONCURRENT_JOBS

\* C1 witness: three jobs have been admitted, one of them has ended and the
\* other two are PROCESSING.
C1_Witness ==
  /\ Cardinality({j \in JobIds : Admitted(j)}) = 3
  /\ Cardinality(Processing) = 2
  /\ \E j \in JobIds : Ended(j) /\ Len(files[j]) > 0

\* C2: under fairness of the tool completions, every job waiting in the
\* pending queue is eventually admitted (PROCESSING is assigned to it), and
\* every admitted job eventually reaches DONE or ERROR.
C2_QueueDrains ==
  \A j \in 1..MaxJobs :
    (j \in Range(queue) \/ Admitted(j)) ~> (Admitted(j) /\ Ended(j))

\* C2 witness: three jobs with a file each were uploaded, an earlier one
\* ended in ERROR, and the last one has been admitted and has ended.
C2_Witness ==
  \E a \in 1..2 :
    /\ status[a] = "ERROR"
    /\ \A k \in 1..3 : route[k] = "upload" /\ Len(files[k]) > 0
    /\ Admitted(3) /\ Ended(3)

IsPrefix(p, q) == Len(p) <= Len(q) /\ \A i \in 1..Len(p) : p[i] = q[i]
StatusPaths == {<<"QUEUED", "PROCESSING", "DONE">>,
                <<"QUEUED", "PROCESSING", "ERROR">>}
OnPath(h) == \E q \in StatusPaths : IsPrefix(h, q)

\* C3: the values assigned to a job's status follow QUEUED, PROCESSING and
\* then DONE or ERROR: every step extends the sequence of assigned values
\* along one of the two paths, the status is the last value assigned, a
\* terminal status is never left, and a PROCESSING job keeps its run.
C3_StatusPath ==
  [][\A j \in JobIds :
       /\ IsPrefix(hist[j], hist'[j])
       /\ OnPath(hist'[j])
       /\ hist'[j] # <<>> => status'[j] = hist'[j][Len(hist'[j])]
       /\ Ended(j) => status'[j] = status[j]
       /\ status'[j] = "PROCESSING" => run'[j].stage # "idle"]_vars

\* C3 witness: one job went QUEUED, PROCESSING, ERROR and another went
\* QUEUED, PROCESSING, DONE.
C3_Witness ==
  \E a, b \in JobIds :
    /\ hist[a] = <<"QUEUED", "PROCESSING", "ERROR">>
    /\ hist[b] = <<"QUEUED", "PROCESSING", "DONE">>
    /\ Len(files[b]) > 0

\* The step is a failed tool run or a failed copy in job j's current file.
FileFails(j) ==
  \/ ProbeDone(j, "noDuration")
  \/ DetectDone(j, "reject")
  \/ DetectDone(j, "noneCopyFailed")
  \/ EncodeDone(j, "fail")

\* A job in ERROR: the files before the failed one are DONE with an output,
\* the failed one and those after it have no output, and those after it are
\* still QUEUED.
ErrorShape(j) ==
  \E k \in 1..Len(files[j]) :
    /\ \A i \in 1..(k - 1) :
         files[j][i].status = "DONE" /\ files[j][i].outputName # NULL
    /\ files[j][k].status # "DONE" /\ files[j][k].outputName = NULL
    /\ \A i \in (k + 1)..Len(files[j]) :
         files[j][i].status = "QUEUED" /\ files[j][i].outputName = NULL

\* C4: when the processing of a job's current file fails, the job is in
\* ERROR after that step with the earlier files DONE and the later files
\* QUEUED without output; from then on the job's files and status never
\* change and no run of the job is in progress (no retry).
C4_FailureAborts ==
  [][\A j \in JobIds :
       /\ FileFails(j) => status'[j] = "ERROR" /\ ErrorShape(j)'
       /\ status[j] = "ERROR" =>
            /\ status'[j] = "ERROR"
            /\ files'[j] = files[j]
            /\ run'[j] = Idle
            /\ j \notin Range(queue')]_vars

\* C4 witness: a two-file job is in ERROR because its first file failed,
\* its second file is still QUEUED, and a later job has been admitted since.
C4_Witness ==
  \E j, k \in JobIds :
    /\ status[j] = "ERROR"
    /\ Len(files[j]) = 2
    /\ files[j][2].status = "QUEUED"
    /\ j < k /\ Admitted(k)

\* C5: in every reachable state a job has at most one file in PROCESSING,
\* and a file has left QUEUED only if the file before it is DONE.
C5_SequentialFiles ==
  \A j \in JobIds :
    /\ Cardinality({i \in 1..Len(files[j]) :
                      files[j][i].status = "PROCESSING"}) <= 1
    /\ \A i \in 2..Len(files[j]) :
         files[j][i].status # "QUEUED" => files[j][i - 1].status = "DONE"

\* C5 witness: two jobs run at the same time, one of them on its second
\* file.
C5_Witness ==
  \E a, b \in JobIds :
    /\ a # b
    /\ run[a].stage # "idle" /\ run[a].idx = 2
    /\ run[b].stage # "idle"

\* C6: once the expiry timer of a job has fired, whatever the job's status,
\* the job is not in the job map and a status lookup for its id yields the
\* expired response, and its directory is removed: once the fs.rm that the
\* callback started has called back, the directory does not exist.
C6_Expiry ==
  \A j \in JobIds :
    Fired(j) =>
      /\ j \notin jobs
      /\ StatusResponse(j) = ExpiredResponse
      /\ rm[j] = "ended" => j \notin jobDir

\* C7: the status page of a job in ERROR differs from the page the same
\* files would get under PROCESSING and under DONE, and from the page of
\* every PROCESSING job; no file of an ERROR job is shown as PROCESSING.
C7_ErrorDistinct ==
  \A j \in jobs :
    status[j] = "ERROR" =>
      /\ \A i \in 1..Len(files[j]) : files[j][i].status # "PROCESSING"
      /\ StatusResponse(j) # RenderStatus("PROCESSING", files[j])
      /\ StatusResponse(j) # RenderStatus("DONE", files[j])
      /\ \A k \in jobs :
           status[k] = "PROCESSING" => StatusResponse(j) # StatusResponse(k)

\* C8: every job record in the job map was made for an upload request, and
\* every QUEUED job in the map whose upload has been handled is in the
\* pending queue.
C8_OnlyUploadCreates ==
  \A j \in jobs :
    /\ route[j] = "upload"
    /\ status[j] = "QUEUED" /\ j \notin uploading => j \in Range(queue)

RECURSIVE SumDur(_)
SumDur(keep) ==
  IF keep = <<>> THEN 0
  ELSE (keep[1].end - keep[1].start) + SumDur(Tail(keep))

\* C9: the segments of the minKeep planner are ordered by start, each ends
\* no later than the next starts, and their durations sum to at most
\* totalDuration.
C9_OrderedDisjoint ==
  pCall = "minKeep" /\ pTotal # NaN =>
    /\ \A i \in 1..(Len(pKeep) - 1) :
         /\ pKeep[i].start <= pKeep[i + 1].start
         /\ pKeep[i].end <= pKeep[i + 1].start
    /\ SumDur(pKeep) <= pTotal

\* C10: every segment of the minKeep planner satisfies
\* 0 <= start < end <= totalDuration.
C10_SegmentBounds ==
  pCall = "minKeep" /\ pTotal # NaN =>
    \A i \in 1..Len(pKeep) :
      /\ 0 <= pKeep[i].start
      /\ pKeep[i].start < pKeep[i].end
      /\ pKeep[i].end <= pTotal

\* C11: for an empty silence list both planners return no segment, whatever
\* the total duration.
C11_EmptySilences ==
  pSilences = <<>> /\ pCall # "none" => pKeep = <<>>

\* C12: for the single silence [0, totalDuration] both planners return no
\* segment, whatever the total duration.
C12_WholeFileSilence ==
  pSilences = <<[start |-> 0, end |-> pTotal]>> /\ pCall # "none" =>
    pKeep = <<>>

Video(g) == {k \in 1..Len(g) : g[k].name = "trim"}
Audio(g) == {k \in 1..Len(g) : g[k].name = "atrim"}
Concats(g) == {k \in 1..Len(g) : g[k].name = "concat"}

\* C13: for N >= 1 segments the graph holds exactly N video trims and N
\* audio trims, the pair of segment i at places 2i-1 and 2i with that
\* segment's start and end and the pins v(i-1), a(i-1); exactly one concat
\* with n = N reading [v0][a0]...[vN-1][aN-1]; the first segment has no
\* fade-in, the last no fade-out, and every other boundary has the fade.
C13_GraphShape ==
  gGraph # <<>> /\ gSegs # <<>> =>
    LET N == Len(gSegs)
    IN /\ Cardinality(Video(gGraph)) = N
       /\ Cardinality(Audio(gGraph)) = N
       /\ Cardinality(Concats(gGraph)) = 1
       /\ Len(gGraph) = 2 * N + 1
       /\ \A i \in 1..N :
            /\ gGraph[2 * i - 1].name = "trim"
            /\ gGraph[2 * i - 1].src = "0:v"
            /\ gGraph[2 * i - 1].out = <<"v", i - 1>>
            /\ gGraph[2 * i].name = "atrim"
            /\ gGraph[2 * i].src = "0:a"
            /\ gGraph[2 * i].out = <<"a", i - 1>>
            /\ \A k \in {2 * i - 1, 2 * i} :
                 /\ gGraph[k].start = gSegs[i].start
                 /\ gGraph[k].end = gSegs[i].end
                 /\ gGraph[k].fadeIn = (i # 1)
                 /\ gGraph[k].fadeOut = (i # N)
       /\ gGraph[2 * N + 1].name = "concat"
       /\ gGraph[2 * N + 1].n = N
       /\ Len(gGraph[2 * N + 1].inputs) = 2 * N
       /\ \A i \in 1..N :
            /\ gGraph[2 * N + 1].inputs[2 * i - 1] = <<"v", i - 1>>
            /\ gGraph[2 * N + 1].inputs[2 * i] = <<"a", i - 1>>

\* C13 witness: a graph was built from three different segments.
C13_Witness ==
  /\ Len(gSegs) = 3
  /\ gSegs[1] # gSegs[2] /\ gSegs[2] # gSegs[3] /\ gSegs[1] # gSegs[3]
  /\ Len(gGraph) = 7

ProcessingIn(s) == {j \in JobIds : s.status[j] = "PROCESSING"}

\* C14: a runQueue call made when the queue is empty or activeJobs equals
\* the limit changes nothing (counter, queue, job and file statuses); any
\* call raises the number of PROCESSING jobs by at most one and never
\* takes the counter or that number above the limit, however often it is
\* repeated.
C14_SpeculativeCall ==
  LET after == runQueue(S)
  IN /\ (queue = <<>> \/ activeJobs = MAX_CONCURRENT_JOBS) => after = S
     /\ after.activeJobs <= MAX_CONCURRENT_JOBS
     /\ Cardinality(ProcessingIn(after)) <= MAX_CONCURRENT_JOBS
     /\ Cardinality(ProcessingIn(after)) <= Cardinality(Processing) + 1
     /\ Cardinality(ProcessingIn(after)) - Cardinality(Processing)
          <= MAX_CONCURRENT_JOBS - activeJobs

\* C14 witness: a call admitted a job without files, which finished at
\* once; the limit is reached while jobs still wait, so that every further
\* call has nothing to admit.
C14_Witness ==
  /\ \E j \in JobIds : Len(files[j]) = 0 /\ status[j] = "DONE"
  /\ activeJobs = MAX_CONCURRENT_JOBS
  /\ queue # <<>>

AllFilesDone(j) == \A i \in 1..Len(files[j]) : files[j][i].status = "DONE"

\* C15: a job is DONE only if all its files are DONE, and a job with files
\* that are all DONE is DONE: the step that marks the last file DONE marks
\* the job DONE, never ERROR.
C15_DoneIffFilesDone ==
  \A j \in JobIds :
    /\ status[j] = "DONE" => AllFilesDone(j)
    /\ Len(files[j]) > 0 /\ AllFilesDone(j) => status[j] = "DONE"

\* C15 witness: a job with two files is DONE.
C15_Witness ==
  \E j \in JobIds : Len(files[j]) = 2 /\ status[j] = "DONE"

\* C16: a file gets past the duration probe only with a duration: whenever
\* a job's current file is in silence detection or in the encode (the
\* planner has run), the probe returned a number.
C16_ProbeFailureAborts ==
  \A j \in JobIds :
    run[j].stage \in {"detect", "encode"} => run[j].dur = "number"

\* C18: between event-loop turns a job waits in the queue only while all
\* MAX_CONCURRENT_JOBS slots are taken.
C18_WorkConserving ==
  queue # <<>> => activeJobs = MAX_CONCURRENT_JOBS

\* C18 witness: a job waits behind two running jobs after an earlier job
\* has ended.
C18_Witness ==
  /\ queue # <<>>
  /\ \E j \in JobIds : Ended(j)

\* C20: a job whose expiry timer fired while it waited in the pending queue
\* is not admitted afterwards.
C20_ExpiredNeverAdmitted ==
  [][\A j \in JobIds :
       Fired(j) /\ j \in Range(queue) => ~Admitted(j)']_vars

Pushed(j) == j \in Range(queue) \/ Admitted(j)
Before(a, b, q) ==
  \E i, k \in DOMAIN q : i < k /\ q[i] = a /\ q[k] = b

\* Job a was pushed before job b and has not been overtaken: a is pushed,
\* and b is not pushed yet, or stands behind a in the queue, or still
\* waits while a is admitted.
Ahead(a, b) ==
  /\ Pushed(a)
  /\ \/ ~Pushed(b)
     \/ Before(a, b, queue)
     \/ Admitted(a) /\ ~Admitted(b)

\* C19: jobs are admitted in the order they were pushed: when a was pushed
\* before b, no step admits b unless a is admitted by then, and until a is
\* admitted it stays ahead of b.
C19_FifoAdmission ==
  [][\A a, b \in JobIds :
       a # b /\ Ahead(a, b) =>
         /\ Admitted(b)' => Admitted(a)'
         /\ ~Admitted(a)' => Ahead(a, b)']_vars

\* C19 witness: all jobs were pushed, three were admitted and one of them
\* has ended, and the job still waiting was created before a job that is
\* running: admission followed the order of the pushes, not of the ids.
C19_Witness ==
  /\ \A j \in 1..OrderJobs : Pushed(j) /\ Len(files[j]) > 0
  /\ Len(queue) = 1
  /\ \E j \in JobIds : Ended(j)
  /\ \E a \in JobIds : status[a] = "PROCESSING" /\ queue[1] < a

ExpiredRunning(j) == Fired(j) /\ status[j] = "PROCESSING"

\* C17: a job whose timer fired while it was PROCESSING still ends in DONE
\* or ERROR; it is never put back into the queue or the job map; the step
\* that ends it takes its slot off activeJobs exactly once (the counter
\* always equals the number of PROCESSING jobs) and admits the head of the
\* queue if a job waits.
C17_ExpiryWhileProcessing ==
  /\ [](activeJobs = Cardinality(Processing))
  /\ [](\A j \in 1..MaxJobs : Fired(j) => j \notin jobs)
  /\ [][\A j \in 1..MaxJobs :
          ExpiredRunning(j) =>
            /\ status'[j] \in {"PROCESSING", "DONE", "ERROR"}
            /\ j \notin Range(queue')
            /\ Ended(j)' /\ queue # <<>> =>
                 "PROCESSING" \in Range(hist'[Head(queue)])]_vars
  /\ \A j \in 1..MaxJobs : ExpiredRunning(j) ~> Ended(j)

\* C17 witness: the timer of a PROCESSING job has fired while another job
\* waits in the queue.
C17_Witness ==
  \E j \in JobIds : ExpiredRunning(j) /\ queue # <<>>

====
